---- MODULE Spec2Model ----
(***************************************************************************)
(* Model of the Jira -> Asana goal status synchronisation                  *)
(* (main.py, src/sync_manager.py, src/jira_api.py, src/asana_api.py).      *)
(*                                                                         *)
(* Time is a count of hours on the UTC axis.  A timestamp carried by an    *)
(* API string is a record [wall, tz, aware]: the wall-clock digits, the    *)
(* UTC offset written in the string and whether an offset is written at    *)
(* all; the instant it denotes is wall - tz.  Every event of the outside   *)
(* world (a comment, a status change, a status update) takes one tick, so  *)
(* that two events never carry the same instant.                           *)
(*                                                                         *)
(* Texts are sequences of tokens; "x in text" of the code is the           *)
(* contiguous-subsequence test Contains.                                   *)
(***************************************************************************)
EXTENDS Integers, Sequences, FiniteSets, TLC

\* ---------------------------------------------------------------- bounds
MaxRuns == 2
MaxEvents == 2
MaxTz == 1
StartClock == 170
MaxBacklog == 7
MaxNameLen == 4
MaxDepth == 2

\* ------------------------------------------------------ program constants
SevenDays == 168
MaxShown == 5

TzOffsets == 0..MaxTz

\* ------------------------------------------------------------ the world
Tickets == {"K1", "K2"}
NoKey == "NOKEY"
NoStatus == "NONE"
Statuses == {"green", "red", "Done", "Blocked"}

\* the resources that support each goal, in the order of the
\* relationship query; key is the ticket key found in the attachments
\* of a task, NoKey when there is none
Resource(type, gid, name, key) ==
  [resource_type |-> type, gid |-> gid, name |-> name, key |-> key]

GoalRelationships(g) ==
  CASE g = "g1" -> << Resource("task", "t1", "n1", "K1"),
                      Resource("project", "p9", "n9", NoKey),
                      Resource("task", "t2", "n2", NoKey),
                      Resource("task", "t3", "n3", "K2") >>
    [] g = "g2" -> << Resource("task", "t6", "n6", NoKey),
                      Resource("task", "t4", "n4", "K2") >>
    [] g = "g3" -> << Resource("task", "t5", "n5", NoKey) >>
    [] g = "g5" -> << Resource("task", "t7", "n7", "K1"),
                      Resource("task", "t8", "n8", "K1") >>
    [] OTHER    -> << >>

\* AsanaAPI.get_goal_tasks: the supporting resources that are tasks
get_goal_tasks(relationships) ==
  LET kept == SelectSeq(relationships, LAMBDA rel : rel.resource_type = "task")
  IN [i \in 1..Len(kept) |->
        [gid |-> kept[i].gid, name |-> kept[i].name, key |-> kept[i].key]]

GoalTasks(g) == get_goal_tasks(GoalRelationships(g))

KnownGoals == {"g1", "g2", "g3", "g4", "g5"}
GoalsWithTickets == {"g1", "g2"}

\* the completion value of a ticket (customfield_11699), << >> without one
TicketCompletion(k) == IF k = "K1" THEN << 40 >> ELSE << >>

\* the value of a goal's metric before any update of it
NoMetric == [num |-> 0, den |-> 1]

\* what the goals endpoint answers for a scope id; an unknown id is an
\* API error (HTTP 404), a known one a list that may be empty
ApiError == << "ApiException" >>
Directory(kind, id) ==
  CASE kind = "goal"      /\ id \in KnownGoals -> << id >>
    [] kind = "project"   /\ id = "p1" -> << "g3", "g4" >>
    [] kind = "team"      /\ id = "t1" -> << "g1", "g2" >>
    [] kind = "workspace" /\ id = "w1" -> << >>
    [] OTHER -> ApiError

\* ------------------------------------------------------------- helpers
Tok(s) == [s |-> s, n |-> 0]
DateTok(n) == [s |-> "date", n |-> n]
Toks(seq) == [i \in 1..Len(seq) |-> Tok(seq[i])]

\* Python's  pat in text
Contains(text, pat) ==
  \E i \in 0..(Len(text) - Len(pat)) :
     \A j \in 1..Len(pat) : text[i + j] = pat[j]

Range(seq) == {seq[i] : i \in 1..Len(seq)}

RECURSIVE Flatten(_)
Flatten(seqs) ==
  IF seqs = << >> THEN << >> ELSE Head(seqs) \o Flatten(Tail(seqs))

\* instant on the UTC axis denoted by a timestamp
Instant(ts) == ts.wall - ts.tz

\* ------------------------------------------------------------ jira_api
\* dateutil parser.parse followed by the normalisation of
\* get_comments_since: an aware timestamp is converted to UTC and made
\* naive, a naive one is taken as it is written
created_date(ts) == IF ts.aware THEN ts.wall - ts.tz ELSE ts.wall

\* list.sort(key=created): stable, ascending
RECURSIVE InsertAsc(_, _)
InsertAsc(sorted, c) ==
  IF sorted = << >> THEN << c >>
  ELSE IF Head(sorted).created <= c.created
       THEN << Head(sorted) >> \o InsertAsc(Tail(sorted), c)
       ELSE << c >> \o sorted

RECURSIVE SortAsc(_)
SortAsc(seq) ==
  IF seq = << >> THEN << >>
  ELSE InsertAsc(SortAsc(SubSeq(seq, 1, Len(seq) - 1)), seq[Len(seq)])

\* list.sort(key=created, reverse=True): stable, descending
RECURSIVE InsertDesc(_, _)
InsertDesc(sorted, c) ==
  IF sorted = << >> THEN << c >>
  ELSE IF Head(sorted).created >= c.created
       THEN << Head(sorted) >> \o InsertDesc(Tail(sorted), c)
       ELSE << c >> \o sorted

RECURSIVE SortDesc(_)
SortDesc(seq) ==
  IF seq = << >> THEN << >>
  ELSE InsertDesc(SortDesc(SubSeq(seq, 1, Len(seq) - 1)), seq[Len(seq)])

\* the comparison made inclusive
IsAfter_Inclusive(created, since) == created >= since

\* the comparison of get_comments_since
IsAfter(created, since) == created > since

\* the loop of get_comments_since over the comments of the response
RECURSIVE FilterSince(_, _)
FilterSince(raw, since) ==
  IF raw = << >> THEN << >>
  ELSE LET c == Head(raw)
           rest == FilterSince(Tail(raw), since)
       IN IF IsAfter(created_date(c.created), since)
          THEN << [id |-> c.id, author |-> c.author, rendered_body |-> c.body,
                   created |-> created_date(c.created)] >> \o rest
          ELSE rest

\* JiraAPI.get_comments_since: a failed request is caught and answered
\* with the empty list
get_comments_since(raw, since, jira_up) ==
  IF jira_up THEN SortAsc(FilterSince(raw, since)) ELSE << >>

\* JiraAPI.get_ticket: a failed request is caught and answered with None
\* JiraAPI.get_ticket_status: the status of the ticket, None when the
\* ticket could not be fetched or carries no status
get_ticket_status(status, jira_up) ==
  IF jira_up THEN status ELSE NoStatus

\* ----------------------------------------------------------- asana_api
\* AsanaAPI.get_latest_goal_status_update: the first element after a
\* stable descending sort on the created_at strings (all strings of one
\* API carry the same offset, so the string order is the order of wall)
RECURSIVE InsertLatest(_, _)
InsertLatest(sorted, u) ==
  IF sorted = << >> THEN << u >>
  ELSE IF Head(sorted).created_at.wall >= u.created_at.wall
       THEN << Head(sorted) >> \o InsertLatest(Tail(sorted), u)
       ELSE << u >> \o sorted

RECURSIVE SortLatest(_)
SortLatest(seq) ==
  IF seq = << >> THEN << >>
  ELSE InsertLatest(SortLatest(SubSeq(seq, 1, Len(seq) - 1)), seq[Len(seq)])

\* a sequence of length 0 (None) or 1
get_latest_goal_status_update(status_updates) ==
  IF status_updates = << >> THEN << >>
  ELSE << SortLatest(status_updates)[1] >>

\* the plain text Asana derives from the html body: the tags are dropped
\* (a token with n = -1 is the value of an attribute)
IsTag(tok) == \/ tok.n = -1
              \/ tok.s \in {"<body>", "</body>", "<strong>", "</strong>",
                            "<a>", "</a>", "<em>", "</em>", "<p>", "</p>"}
PlainText(html) == SelectSeq(html, LAMBDA tok : ~IsTag(tok))

\* AsanaAPI._convert_html_to_asana_format on the documents the renderer
\* builds: <p> is unwrapped, the body tag is removed and put back
Unwrapped == {"<p>", "</p>", "<div>", "</div>", "<span>", "</span>"}
convert_html_to_asana_format(html) ==
  LET inner == SelectSeq(html, LAMBDA tok :
                 ~(tok.s \in Unwrapped \/ tok.s \in {"<body>", "</body>"}))
  IN << Tok("<body>") >> \o inner \o << Tok("</body>") >>

\* ---- _convert_html_to_asana_format_impl on markup trees
\* a node of the tree BeautifulSoup parses: a text ("#text", its text a
\* sequence of atoms) or an element with the names of its attributes
\* ("href_blank" is an href holding only blanks) and its children
TextNode(atoms) == [tag |-> "#text", attrs |-> {}, kids |-> << >>, text |-> atoms]
Elem(tag, attrs, kids) == [tag |-> tag, attrs |-> attrs, kids |-> kids, text |-> << >>]

\* element.unwrap() on every element of the given names: the element is
\* replaced by its children
RECURSIVE UnwrapTags(_, _)
UnwrapTags(forest, tags) ==
  IF forest = << >> THEN << >>
  ELSE LET node == Head(forest)
           rest == UnwrapTags(Tail(forest), tags)
       IN IF node.tag = "#text" THEN << node >> \o rest
          ELSE IF node.tag \in tags THEN UnwrapTags(node.kids, tags) \o rest
          ELSE << [node EXCEPT !.kids = UnwrapTags(node.kids, tags)] >> \o rest

\* Tag.get_text(): the texts below, in document order
RECURSIVE get_text(_)
get_text(forest) ==
  IF forest = << >> THEN << >>
  ELSE IF Head(forest).tag = "#text"
       THEN Head(forest).text \o get_text(Tail(forest))
       ELSE get_text(Head(forest).kids) \o get_text(Tail(forest))

\* every element of the given names replaced by a new tag whose string
\* is the element's text
RECURSIVE ReplaceWithText(_, _, _)
ReplaceWithText(forest, tags, new_name) ==
  IF forest = << >> THEN << >>
  ELSE LET node == Head(forest)
           rest == ReplaceWithText(Tail(forest), tags, new_name)
       IN IF node.tag = "#text" THEN << node >> \o rest
          ELSE IF node.tag \in tags
          THEN << Elem(new_name, {}, << TextNode(get_text(node.kids)) >>) >> \o rest
          ELSE << [node EXCEPT !.kids = ReplaceWithText(node.kids, tags, new_name)] >>
               \o rest

\* <br> replaced by a newline
RECURSIVE ReplaceBr(_)
ReplaceBr(forest) ==
  IF forest = << >> THEN << >>
  ELSE LET node == Head(forest)
           rest == ReplaceBr(Tail(forest))
       IN IF node.tag = "#text" THEN << node >> \o rest
          ELSE IF node.tag = "br" THEN << TextNode(<< "\n" >>) >> \o rest
          ELSE << [node EXCEPT !.kids = ReplaceBr(node.kids)] >> \o rest

\* links: one without href, or with a blank href, is unwrapped, the
\* others keep their href alone
RECURSIVE CleanLinks(_)
CleanLinks(forest) ==
  IF forest = << >> THEN << >>
  ELSE LET node == Head(forest)
           rest == CleanLinks(Tail(forest))
       IN IF node.tag = "#text" THEN << node >> \o rest
          ELSE IF node.tag = "a" /\ ~("href" \in node.attrs)
          THEN CleanLinks(node.kids) \o rest
          ELSE IF node.tag = "a"
          THEN << [node EXCEPT !.attrs = {"href"}, !.kids = CleanLinks(node.kids)] >>
               \o rest
          ELSE << [node EXCEPT !.kids = CleanLinks(node.kids)] >> \o rest

\* every attribute removed, but the href of a link
RECURSIVE StripAttrs(_)
StripAttrs(forest) ==
  IF forest = << >> THEN << >>
  ELSE LET node == Head(forest)
           rest == StripAttrs(Tail(forest))
       IN IF node.tag = "#text" THEN << node >> \o rest
          ELSE << [node EXCEPT
                     !.attrs = IF node.tag = "a" /\ "href" \in node.attrs
                               THEN {"href"} ELSE {},
                     !.kids = StripAttrs(node.kids)] >> \o rest

\* str(soup): the tree written as opening tags, texts and closing tags
OpenTag(tag, attrs) == [kind |-> "open", s |-> tag, attrs |-> attrs]
CloseTag(tag) == [kind |-> "close", s |-> tag, attrs |-> {}]
TextTok(atom) == [kind |-> "text", s |-> atom, attrs |-> {}]

RECURSIVE Serialize(_)
Serialize(forest) ==
  IF forest = << >> THEN << >>
  ELSE LET node == Head(forest)
       IN (IF node.tag = "#text"
           THEN [i \in 1..Len(node.text) |-> TextTok(node.text[i])]
           ELSE << OpenTag(node.tag, node.attrs) >> \o Serialize(node.kids)
                \o << CloseTag(node.tag) >>)
          \o Serialize(Tail(forest))

\* the blank lines dropped: a newline stays only between two lines
RECURSIVE CleanLines(_, _)
CleanLines(toks, at_start) ==
  IF toks = << >> THEN << >>
  ELSE IF Head(toks) = TextTok("\n")
       THEN IF at_start \/ \A i \in 1..Len(toks) : toks[i] = TextTok("\n")
            THEN CleanLines(Tail(toks), at_start)
            ELSE << Head(toks) >> \o CleanLines(Tail(toks), TRUE)
       ELSE << Head(toks) >> \o CleanLines(Tail(toks), FALSE)

\* AsanaAPI._convert_html_to_asana_format_impl
convert_html_to_asana_format_impl(html_content) ==
  LET unsupported == UnwrapTags(html_content,
         {"script", "style", "meta", "head", "html", "title", "span", "img"})
      headers == ReplaceWithText(unsupported,
         {"h1", "h2", "h3", "h4", "h5", "h6"}, "strong")
      bold == ReplaceWithText(headers, {"b"}, "strong")
      italic == ReplaceWithText(bold, {"i"}, "em")
      breaks == ReplaceBr(italic)
      links == CleanLinks(breaks)
      bare == StripAttrs(links)
      soup == UnwrapTags(bare, {"p", "div"})
      text == SelectSeq(Serialize(soup),
                        LAMBDA tok : ~(tok.kind # "text" /\ tok.s = "body"))
  IN << OpenTag("body", {}) >> \o CleanLines(text, TRUE) \o << CloseTag("body") >>

\* text held as a sequence of characters, for the search of a ticket key
IsUpper(ch) == ch \in {"A", "J", "O", "P", "R"}
IsDigit(ch) == ch \in {"1", "2", "3"}

\* the end of the longest run of upper-case letters (of digits) of s that
\* starts at i, i - 1 when there is none
RECURSIVE UpperRunEnd(_, _)
UpperRunEnd(s, i) ==
  IF i <= Len(s) /\ IsUpper(s[i]) THEN UpperRunEnd(s, i + 1) ELSE i - 1

RECURSIVE DigitRunEnd(_, _)
DigitRunEnd(s, i) ==
  IF i <= Len(s) /\ IsDigit(s[i]) THEN DigitRunEnd(s, i + 1) ELSE i - 1

\* [A-Z]+-\d+ matched at i with the letters ending at r, r going down from
\* the end of the run as the matcher backtracks: the end of the match, 0
\* without a match
RECURSIVE MatchWithLetters(_, _, _)
MatchWithLetters(s, i, r) ==
  IF r < i THEN 0
  ELSE IF r + 1 <= Len(s) /\ s[r + 1] = "-" /\ DigitRunEnd(s, r + 2) >= r + 2
       THEN DigitRunEnd(s, r + 2)
       ELSE MatchWithLetters(s, i, r - 1)

MatchAt(s, i) == MatchWithLetters(s, i, UpperRunEnd(s, i))

\* re.search(r'([A-Z]+-\d+)', s) from position i on: << >> for None,
\* << group 1 >> for a match
RECURSIVE SearchFrom(_, _)
SearchFrom(s, i) ==
  IF i > Len(s) THEN << >>
  ELSE IF MatchAt(s, i) > 0 THEN << SubSeq(s, i, MatchAt(s, i)) >>
  ELSE SearchFrom(s, i + 1)

re_search(s) == SearchFrom(s, 1)

\* the key taken from the last attachment that has one
RECURSIVE get_jira_ticket_from_attachments_Last(_)
get_jira_ticket_from_attachments_Last(names) ==
  IF names = << >> THEN << >>
  ELSE IF get_jira_ticket_from_attachments_Last(Tail(names)) # << >>
  THEN get_jira_ticket_from_attachments_Last(Tail(names))
  ELSE re_search(Head(names))

\* AsanaAPI._get_jira_ticket_from_attachments on the names of the task's
\* attachments: << >> for None, << key >> otherwise
RECURSIVE get_jira_ticket_from_attachments(_)
get_jira_ticket_from_attachments(names) ==
  IF names = << >> THEN << >>
  ELSE IF re_search(Head(names)) # << >> THEN re_search(Head(names))
  ELSE get_jira_ticket_from_attachments(Tail(names))

\* AsanaAPI.update_goal_metric: the value is sent divided by 100; the
\* method has no caller in the program
update_goal_metric(metric, goal_gid, value) ==
  [metric EXCEPT ![goal_gid] = [num |-> value, den |-> 100]]

\* -------------------------------------------------------- sync_manager
\* str.lower() on the status strings of the model
Lower(str) == CASE str = "Done" -> "done"
                [] str = "Blocked" -> "blocked"
                [] OTHER -> str

\* the status-mapping table handed to SyncManager (defaults of run_sync)
status_mapping == ("green" :> "on_track") @@ ("amber" :> "at_risk") @@
                  ("red" :> "off_track") @@ ("Temporary paused" :> "dropped")

\* dict.get(key, default) on the table
MappingGet(key, default) ==
  IF key \in DOMAIN status_mapping THEN status_mapping[key] ELSE default

\* SyncManager.map_jira_status_to_asana
map_jira_status_to_asana(jira_status) ==
  LET mapped_status == MappingGet(jira_status, jira_status)
  IN IF Lower(mapped_status) \in {"done", "complete", "resolved", "closed"}
       THEN "complete"
     ELSE IF Lower(mapped_status) \in {"blocked", "on hold", "waiting"}
       THEN "at_risk"
     ELSE "on_track"

\* the task loop of _process_single_goal: one record per task with a
\* ticket key, RuntimeError as soon as a ticket has no status
MissingStatus_Skipped(jira_status) == FALSE

MissingStatus(jira_status) == jira_status = NoStatus

\* the ticket records collected in the reverse order of the tasks
RECURSIVE CollectTickets_Reversed(_, _, _, _)
CollectTickets_Reversed(tasks, goal_name, status_of, jira_up) ==
  IF tasks = << >> THEN [raised |-> FALSE, info |-> << >>]
  ELSE LET task == Head(tasks)
           rest == CollectTickets_Reversed(Tail(tasks), goal_name, status_of, jira_up)
       IN IF task.gid = "" \/ task.key = NoKey THEN rest
          ELSE LET jira_status == get_ticket_status(status_of[task.key], jira_up)
               IN IF MissingStatus(jira_status)
                  THEN [raised |-> TRUE, info |-> << >>]
                  ELSE IF rest.raised THEN rest
                  ELSE [raised |-> FALSE,
                        info |-> rest.info \o
                                 << [task_name |-> task.name,
                                     jira_ticket |-> task.key,
                                     jira_status |-> jira_status,
                                     source |-> goal_name] >>]

\* _process_single_goal, the loop over the tasks
RECURSIVE CollectTickets(_, _, _, _)
CollectTickets(tasks, goal_name, status_of, jira_up) ==
  IF tasks = << >> THEN [raised |-> FALSE, info |-> << >>]
  ELSE LET task == Head(tasks)
           rest == CollectTickets(Tail(tasks), goal_name, status_of, jira_up)
       IN IF task.gid = "" \/ task.key = NoKey THEN rest
          ELSE LET jira_status == get_ticket_status(status_of[task.key], jira_up)
               IN IF MissingStatus(jira_status)
                  THEN [raised |-> TRUE, info |-> << >>]
                  ELSE IF rest.raised THEN rest
                  ELSE [raised |-> FALSE,
                        info |-> << [task_name |-> task.name,
                                     jira_ticket |-> task.key,
                                     jira_status |-> jira_status,
                                     source |-> goal_name] >> \o rest.info]

\* create_goal_status_update, the window start
SinceDate(latest_status, now_local) ==
  IF latest_status # << >>
  THEN latest_status[1].created_at.wall
  ELSE now_local - SevenDays

\* create_goal_status_update, the comment loop over the ticket records
RECURSIVE CollectComments(_, _, _, _)
CollectComments(info, raw_of, since, jira_up) ==
  IF info = << >> THEN << >>
  ELSE LET ticket_info == Head(info)
           fetched == get_comments_since(raw_of[ticket_info.jira_ticket],
                                         since, jira_up)
       IN [i \in 1..Len(fetched) |->
             [jira_ticket |-> ticket_info.jira_ticket,
              task_name |-> ticket_info.task_name,
              author |-> fetched[i].author,
              created |-> fetched[i].created,
              text |-> fetched[i].rendered_body]]
          \o CollectComments(Tail(info), raw_of, since, jira_up)

\* create_goal_status_update, the comparison with the previous text
TicketPattern(ticket) == << Tok("["), Tok(ticket), Tok("]") >>
StatusPattern(status) == << Tok("("), Tok(status), Tok("-") >>

StatusChangesDetected(latest_status, info) ==
  /\ latest_status # << >>
  /\ latest_status[1].text # << >>
  /\ \E i \in 1..Len(info) :
        ~ ( /\ Contains(latest_status[1].text, TicketPattern(info[i].jira_ticket))
            /\ Contains(latest_status[1].text, StatusPattern(info[i].jira_status)) )

\* create_goal_status_update, the decision
ShouldUpdate(latest_status, info, all_new_comments) ==
  LET has_new_activity == Len(all_new_comments) > 0
      is_first_status == latest_status = << >>
  IN ~ (~has_new_activity /\ ~StatusChangesDetected(latest_status, info)
        /\ ~is_first_status)

\* create_goal_status_update, the status type of the update
StatusType(info) ==
  LET total_tickets == Len(info)
      done_tickets == Cardinality({i \in 1..Len(info) :
          Lower(info[i].jira_status) \in {"done", "complete", "resolved", "closed"}})
      blocked_tickets == Cardinality({i \in 1..Len(info) :
          Lower(info[i].jira_status) \in {"blocked", "on hold", "waiting"}})
  IN IF done_tickets = total_tickets THEN "complete"
     ELSE IF blocked_tickets > 0 THEN "at_risk"
     ELSE "on_track"

\* _build_status_text_html, the comments shown for one ticket
FirstN(seq, n) == SubSeq(seq, 1, IF Len(seq) < n THEN Len(seq) ELSE n)

TicketComments(all_new_comments, jira_ticket) ==
  SelectSeq(all_new_comments, LAMBDA c : c.jira_ticket = jira_ticket)

RenderComment(comment) ==
  << Tok("<em>"), Tok(comment.author), DateTok(comment.created), Tok("</em>") >>
  \o Toks(comment.text)

\* the section of a ticket with the separator whether or not a comment
\* was rendered
RenderTicket_AlwaysSeparator(all_new_comments, ticket_info) ==
  LET ticket_comments == TicketComments(all_new_comments, ticket_info.jira_ticket)
      shown == FirstN(ticket_comments, MaxShown)
  IN << Tok("<a>"), [s |-> ticket_info.jira_ticket, n |-> -1],
        Tok(ticket_info.task_name), Tok("</a>"),
        Tok("<strong>"), Tok("Status:"), Tok("</strong>"),
        Tok(ticket_info.jira_status),
        Tok("<strong>"), Tok("New comments:"), Tok("</strong>") >>
     \o (IF ticket_comments # << >>
         THEN Flatten([i \in 1..Len(shown) |-> RenderComment(shown[i])])
         ELSE << Tok("No new comments.") >>)
     \o << Tok("----------") >>

\* _build_status_text_html, the section of one ticket record
RenderTicket(all_new_comments, ticket_info) ==
  LET ticket_comments == TicketComments(all_new_comments, ticket_info.jira_ticket)
      shown == FirstN(ticket_comments, MaxShown)
  IN << Tok("<a>"), [s |-> ticket_info.jira_ticket, n |-> -1],
        Tok(ticket_info.task_name), Tok("</a>"),
        Tok("<strong>"), Tok("Status:"), Tok("</strong>"),
        Tok(ticket_info.jira_status),
        Tok("<strong>"), Tok("New comments:"), Tok("</strong>") >>
     \o (IF ticket_comments # << >>
         THEN Flatten([i \in 1..Len(shown) |-> RenderComment(shown[i])])
              \o << Tok("----------") >>
         ELSE << Tok("No new comments.") >>)

\* SyncManager._build_status_text_html
build_status_text_html(all_new_comments, info) ==
  << Tok("<body>"), Tok("<strong>"), Tok("Automatic Activity Update"),
     Tok("</strong>") >>
  \o Flatten([i \in 1..Len(info) |-> RenderTicket(all_new_comments, info[i])])
  \o << Tok("</body>") >>

\* ------------------------------------------------------------- main.py
\* a parameter value is a list of ids or a string; a string is held as
\* its leading blanks, its stripped content and its trailing blanks; a
\* parameter that is absent (None) is the empty list
ListValue(seq) ==
  [isstr |-> FALSE, lead |-> 0, core |-> "", trail |-> 0, list |-> seq]
StrValue(lead, core, trail) ==
  [isstr |-> TRUE, lead |-> lead, core |-> core, trail |-> trail, list |-> << >>]

\* str.strip()
Strip(value) == value.core

\* normalize_to_list without the strip
normalize_to_list_NoStrip(value) ==
  IF value.isstr
  THEN IF value.lead + value.trail > 0 \/ value.core # ""
       THEN << value.core >> ELSE << >>
  ELSE value.list

\* normalize_to_list
normalize_to_list(value) ==
  IF value.isstr
  THEN IF Strip(value) # "" THEN << Strip(value) >> ELSE << >>
  ELSE value.list

\* validate_asana_scope
HasScope(p) ==
  \/ normalize_to_list(p.asana_goal_gids) # << >>
  \/ normalize_to_list(p.asana_project_gids) # << >>
  \/ normalize_to_list(p.asana_team_gids) # << >>
  \/ normalize_to_list(p.asana_workspace_gids) # << >>

Entries(kind, gids) == [i \in 1..Len(gids) |-> [kind |-> kind, id |-> gids[i]]]

\* the four loops with the teams first
ScopeEntries_TeamsFirst(p) ==
  Entries("team", normalize_to_list(p.asana_team_gids))
  \o Entries("goal", normalize_to_list(p.asana_goal_gids))
  \o Entries("project", normalize_to_list(p.asana_project_gids))
  \o Entries("workspace", normalize_to_list(p.asana_workspace_gids))

\* run_sync, the four loops in their order
ScopeEntries(p) ==
  Entries("goal", normalize_to_list(p.asana_goal_gids))
  \o Entries("project", normalize_to_list(p.asana_project_gids))
  \o Entries("team", normalize_to_list(p.asana_team_gids))
  \o Entries("workspace", normalize_to_list(p.asana_workspace_gids))

\* the configurations explored
Configs ==
  { [has_required |-> TRUE,
     asana_goal_gids |-> ListValue(<< "gX", "g1" >>),
     asana_project_gids |-> ListValue(<< >>),
     asana_team_gids |-> ListValue(<< >>),
     asana_workspace_gids |-> ListValue(<< >>)],
    [has_required |-> TRUE,
     asana_goal_gids |-> ListValue(<< "g1" >>),
     asana_project_gids |-> ListValue(<< "p1" >>),
     asana_team_gids |-> StrValue(1, "t1", 0),
     asana_workspace_gids |-> ListValue(<< "w1" >>)],
    [has_required |-> TRUE,
     asana_goal_gids |-> ListValue(<< >>),
     asana_project_gids |-> ListValue(<< >>),
     asana_team_gids |-> ListValue(<< >>),
     asana_workspace_gids |-> ListValue(<< >>)],
    [has_required |-> TRUE,
     asana_goal_gids |-> StrValue(1, "", 1),
     asana_project_gids |-> StrValue(0, "", 0),
     asana_team_gids |-> ListValue(<< >>),
     asana_workspace_gids |-> ListValue(<< >>)],
    [has_required |-> FALSE,
     asana_goal_gids |-> ListValue(<< "g1" >>),
     asana_project_gids |-> ListValue(<< >>),
     asana_team_gids |-> ListValue(<< >>),
     asana_workspace_gids |-> ListValue(<< >>)] }

\* run_sync and __main__: the exception that leaves run_sync for an
\* outcome of the run, and the exit status __main__ gives it
ExceptionOf(how) ==
  CASE how = "config_error" -> "UserException"
    [] how \in {"api_error", "status_error"} -> "UserException"
    [] OTHER -> "none"

ExitStatus(how) ==
  CASE ExceptionOf(how) = "UserException" -> 1
    [] ExceptionOf(how) = "Exception" -> 2
    [] OTHER -> 0

\* ---------------------------------------------------------------- state
VARIABLES
  comments,          \* Jira: ticket -> comments in creation order
  ticket_status,     \* Jira: ticket -> status, NoStatus when it has none
  updates,           \* Asana: goal -> status updates in creation order
  clock,             \* the current instant (UTC)
  net,               \* "up", "jira_down" or "asana_down"
  last_activity,     \* instant of the last comment or status change
  n_events,          \* number of changes of the outside world so far
  params,            \* the scope parameters of the configuration
  dry_run,           \* the dry_run parameter
  local_tz,          \* UTC offset of the clock behind datetime.now()
  pc,                \* "idle", "scope", "goal", "decide" or "write"
  run_no,            \* number of runs started
  scope_queue,       \* scope entries not yet synchronised
  goal_queue,        \* goals of the current scope entry not yet processed
  jira_tickets_info, \* the ticket records of the goal being processed
  frame,             \* locals of create_goal_status_update
  total_processed,   \* run_sync's counter
  outcome,           \* how the last run ended
  dry_total,         \* counter of the same run made with dry_run set
  dry_outcome,       \* outcome of the same run made with dry_run set
  goal_metric,       \* Asana: goal -> current value of the goal's metric
  fn_in,             \* argument of a function examined on its own
  fn_out             \* its result, << >> while it has not been computed

worldVars == << comments, ticket_status, updates, clock, net, last_activity,
                n_events, goal_metric >>
fnVars == << fn_in, fn_out >>
cfgVars == << params, dry_run, local_tz >>
runVars == << pc, run_no, scope_queue, goal_queue, jira_tickets_info, frame,
              total_processed, outcome, dry_total, dry_outcome >>
vars == << comments, ticket_status, updates, clock, net, last_activity,
           n_events, params, dry_run, local_tz,
           pc, run_no, scope_queue, goal_queue, jira_tickets_info, frame,
           total_processed, outcome, dry_total, dry_outcome,
           goal_metric, fn_in, fn_out >>

\* the UTC offset written in Asana's created_at strings ("...Z")
asana_tz == 0

Stamp(instant, tz) == [wall |-> instant + tz, tz |-> tz, aware |-> TRUE]

NoFrame == [latest_status |-> << >>, since_date |-> 0,
            all_new_comments |-> << >>, status_type |-> "", status_text |-> << >>]

\* a status update written in the "[KEY] (status - ..." layout
OldText(g) ==
  Flatten([i \in 1..Len(GoalTasks(g)) |->
     IF GoalTasks(g)[i].key = NoKey THEN << >>
     ELSE TicketPattern(GoalTasks(g)[i].key) \o StatusPattern("green")])

Init ==
  /\ comments = [k \in Tickets |->
        IF k = "K1"
        THEN << [id |-> 1, author |-> "ann", body |-> << "<p>", "old", "</p>" >>,
                 created |-> Stamp(1, 0)],
                [id |-> 2, author |-> "bob", body |-> << "<p>", "edge", "</p>" >>,
                 created |-> Stamp(StartClock - SevenDays + 1, MaxTz)] >>
        ELSE << >>]
  /\ ticket_status = [k \in Tickets |-> "green"]
  /\ local_tz \in TzOffsets
  /\ \E has_history \in BOOLEAN :
       updates = [g \in KnownGoals |->
          IF has_history /\ g \in GoalsWithTickets
          THEN << [created_at |-> Stamp(StartClock - 1, asana_tz),
                   text |-> OldText(g), status_type |-> "on_track", run |-> 0,
                   new_comments |-> {}] >>
          ELSE << >>]
  /\ clock = StartClock
  /\ net = "up"
  /\ last_activity = StartClock - SevenDays + 1
  /\ n_events = 0
  /\ params \in Configs
  /\ dry_run \in BOOLEAN
  /\ pc = "idle"
  /\ run_no = 0
  /\ scope_queue = << >>
  /\ goal_queue = << >>
  /\ jira_tickets_info = << >>
  /\ frame = NoFrame
  /\ total_processed = 0
  /\ outcome = "none"
  /\ dry_total = 0
  /\ dry_outcome = "none"
  /\ goal_metric = [g \in KnownGoals |-> NoMetric]
  /\ fn_in = << >>
  /\ fn_out = << >>

\* --------------------------------------------------------- environment
\* somebody comments on a ticket
AddComment(k, tz) ==
  /\ n_events < MaxEvents
  /\ n_events' = n_events + 1
  /\ comments' = [comments EXCEPT ![k] = Append(@,
        [id |-> clock, author |-> "ann", body |-> << "<p>", "news", "</p>" >>,
         created |-> Stamp(clock, tz)])]
  /\ last_activity' = clock
  /\ clock' = clock + 1
  /\ UNCHANGED << ticket_status, updates, net, goal_metric >>
  /\ UNCHANGED cfgVars
  /\ UNCHANGED fnVars
  /\ UNCHANGED runVars

\* a ticket changes its status, or loses it
ChangeStatus(k, st) ==
  /\ n_events < MaxEvents
  /\ st # ticket_status[k]
  /\ ticket_status' = [ticket_status EXCEPT ![k] = st]
  /\ n_events' = n_events + 1
  /\ last_activity' = clock
  /\ clock' = clock + 1
  /\ UNCHANGED << comments, updates, net, goal_metric >>
  /\ UNCHANGED cfgVars
  /\ UNCHANGED fnVars
  /\ UNCHANGED runVars

\* one of the two platforms becomes unreachable, or reachable again
NetChange(n) ==
  /\ n_events < MaxEvents
  /\ n # net
  /\ net' = n
  /\ n_events' = n_events + 1
  /\ UNCHANGED << comments, ticket_status, updates, clock, last_activity,
                  goal_metric >>
  /\ UNCHANGED cfgVars
  /\ UNCHANGED fnVars
  /\ UNCHANGED runVars

\* ------------------------------------------------------------- the run
AsanaUp == net # "asana_down"
JiraUp == net # "jira_down"

\* the except clause of run_sync: the error is logged and raised again
Raise(kind) ==
  /\ pc' = "idle"
  /\ outcome' = kind
  /\ scope_queue' = << >>
  /\ goal_queue' = << >>
  /\ jira_tickets_info' = << >>
  /\ frame' = NoFrame
  /\ UNCHANGED << run_no, total_processed >>

\* the value returned by _process_single_goal left out of the counter
Return_NotCounted(processed) ==
  /\ total_processed' = total_processed
  /\ goal_queue' = Tail(goal_queue)
  /\ pc' = IF Tail(goal_queue) = << >> THEN "scope" ELSE "goal"
  /\ jira_tickets_info' = << >>
  /\ frame' = NoFrame
  /\ UNCHANGED << run_no, scope_queue, outcome >>

\* _process_single_goal returns processed to its caller, which adds it to
\* its counter and goes on with the next goal or the next scope entry
Return(processed) ==
  /\ total_processed' = total_processed + processed
  /\ goal_queue' = Tail(goal_queue)
  /\ pc' = IF Tail(goal_queue) = << >> THEN "scope" ELSE "goal"
  /\ jira_tickets_info' = << >>
  /\ frame' = NoFrame
  /\ UNCHANGED << run_no, scope_queue, outcome >>

\* run_sync up to the first loop
StartRun ==
  /\ pc = "idle"
  /\ run_no < MaxRuns
  /\ run_no' = run_no + 1
  /\ total_processed' = 0
  /\ dry_total' = 0
  /\ jira_tickets_info' = << >>
  /\ frame' = NoFrame
  /\ goal_queue' = << >>
  /\ IF params.has_required /\ HasScope(params)
     THEN /\ pc' = "scope"
          /\ scope_queue' = ScopeEntries(params)
          /\ outcome' = "running"
          /\ dry_outcome' = "running"
     ELSE /\ pc' = "idle"
          /\ scope_queue' = << >>
          /\ outcome' = "config_error"
          /\ dry_outcome' = "config_error"
  /\ UNCHANGED worldVars
  /\ UNCHANGED cfgVars
  /\ UNCHANGED fnVars

\* one iteration of a loop of run_sync: sync_goal_by_id or
\* sync_goals_in_project/team/workspace up to the first goal
NextScope ==
  /\ pc = "scope"
  /\ scope_queue # << >>
  /\ LET entry == Head(scope_queue)
         goals == Directory(entry.kind, entry.id)
     IN IF ~AsanaUp \/ goals = ApiError
        THEN /\ Raise("api_error")
             /\ dry_outcome' = "api_error"
             /\ UNCHANGED dry_total
        ELSE /\ scope_queue' = Tail(scope_queue)
             /\ goal_queue' = goals
             /\ pc' = IF goals = << >> THEN "scope" ELSE "goal"
             /\ UNCHANGED << run_no, jira_tickets_info, frame, total_processed,
                             outcome, dry_total, dry_outcome >>
  /\ UNCHANGED worldVars
  /\ UNCHANGED cfgVars
  /\ UNCHANGED fnVars

\* run_sync after the last loop
FinishRun ==
  /\ pc = "scope"
  /\ scope_queue = << >>
  /\ pc' = "idle"
  /\ outcome' = "done"
  /\ dry_outcome' = "done"
  /\ UNCHANGED << run_no, scope_queue, goal_queue, jira_tickets_info, frame,
                  total_processed, dry_total >>
  /\ UNCHANGED worldVars
  /\ UNCHANGED cfgVars
  /\ UNCHANGED fnVars

\* _process_single_goal up to the call of create_goal_status_update
Aggregate ==
  /\ pc = "goal"
  /\ LET goal_gid == Head(goal_queue)
         tasks == GoalTasks(goal_gid)
         collected == CollectTickets(tasks, goal_gid, ticket_status, JiraUp)
     IN IF ~AsanaUp
        THEN /\ Raise("api_error")
             /\ dry_outcome' = "api_error"
             /\ UNCHANGED dry_total
        ELSE IF tasks = << >>
        THEN /\ Return(0)
             /\ UNCHANGED << dry_total, dry_outcome >>
        ELSE IF collected.raised
        THEN /\ Raise("status_error")
             /\ dry_outcome' = "status_error"
             /\ UNCHANGED dry_total
        ELSE IF collected.info = << >>
        THEN /\ Return(0)
             /\ UNCHANGED << dry_total, dry_outcome >>
        ELSE /\ jira_tickets_info' = collected.info
             /\ pc' = "decide"
             /\ UNCHANGED << run_no, scope_queue, goal_queue, frame,
                             total_processed, outcome, dry_total, dry_outcome >>
  /\ UNCHANGED worldVars
  /\ UNCHANGED cfgVars
  /\ UNCHANGED fnVars

\* create_goal_status_update up to the write
FetchAndDecide ==
  /\ pc = "decide"
  /\ LET goal_gid == Head(goal_queue)
         latest_status == get_latest_goal_status_update(updates[goal_gid])
         since_date == SinceDate(latest_status, clock + local_tz)
         all_new_comments ==
            SortDesc(CollectComments(jira_tickets_info, comments, since_date, JiraUp))
     IN IF ~AsanaUp
        THEN /\ Raise("api_error")
             /\ dry_outcome' = "api_error"
             /\ UNCHANGED dry_total
        ELSE IF ~ShouldUpdate(latest_status, jira_tickets_info, all_new_comments)
        THEN /\ Return(1)
             /\ dry_total' = dry_total + 1
             /\ UNCHANGED dry_outcome
        ELSE /\ frame' = [latest_status |-> latest_status,
                          since_date |-> since_date,
                          all_new_comments |-> all_new_comments,
                          status_type |-> StatusType(jira_tickets_info),
                          status_text |-> build_status_text_html(all_new_comments,
                                                                jira_tickets_info)]
             /\ pc' = "write"
             /\ UNCHANGED << run_no, scope_queue, goal_queue, jira_tickets_info,
                             total_processed, outcome, dry_total, dry_outcome >>
  /\ UNCHANGED worldVars
  /\ UNCHANGED cfgVars
  /\ UNCHANGED fnVars

\* the write made whatever dry_run says
Suppressed_Never(dry) == FALSE

\* whether dry_run replaces the write by a preview
Suppressed(dry) == dry

\* create_goal_status_update, the write: "ok" when the call returns True,
\* "raise" when the creation of the status update fails
WriteResult(dry, asana_up) ==
  IF Suppressed(dry) THEN "ok"
  ELSE IF asana_up THEN "ok" ELSE "raise"

\* create_goal_status_update, the write
Write ==
  /\ pc = "write"
  /\ IF WriteResult(TRUE, AsanaUp) = "ok"
     THEN dry_total' = dry_total + 1 /\ UNCHANGED dry_outcome
     ELSE dry_outcome' = "api_error" /\ UNCHANGED dry_total
  /\ LET goal_gid == Head(goal_queue)
     IN IF WriteResult(dry_run, AsanaUp) = "raise"
        THEN /\ Raise("api_error")
             /\ UNCHANGED worldVars
        ELSE IF Suppressed(dry_run)
        THEN /\ Return(1)
             /\ UNCHANGED worldVars
        ELSE /\ Return(1)
             /\ updates' = [updates EXCEPT ![goal_gid] = Append(@,
                   [created_at |-> Stamp(clock, asana_tz),
                    text |-> PlainText(convert_html_to_asana_format(frame.status_text)),
                    status_type |-> frame.status_type,
                    run |-> run_no,
                    new_comments |-> {frame.all_new_comments[i].created :
                                        i \in 1..Len(frame.all_new_comments)}])]
             /\ clock' = clock + 1
             /\ UNCHANGED << comments, ticket_status, net, last_activity,
                             n_events, goal_metric >>
  /\ UNCHANGED cfgVars
  /\ UNCHANGED fnVars

Next ==
  \/ \E k \in Tickets, tz \in TzOffsets : AddComment(k, tz)
  \/ \E k \in Tickets, st \in Statuses \cup {NoStatus} : ChangeStatus(k, st)
  \/ \E n \in {"up", "jira_down", "asana_down"} : NetChange(n)
  \/ StartRun
  \/ NextScope
  \/ FinishRun
  \/ Aggregate
  \/ FetchAndDecide
  \/ Write

Spec == Init /\ [][Next]_vars

\* ------------------------------------------- runs over a backlog of comments
\* the comments of ticket k when the comment made at StartClock - j
\* belongs to ticket own[j], oldest first as Jira lists them
Backlog(own, k) ==
  LET js == SelectSeq([i \in 1..MaxBacklog |-> MaxBacklog + 1 - i],
                      LAMBDA j : own[j] = k)
  IN [i \in 1..Len(js) |->
        [id |-> js[i], author |-> "ann", body |-> << "<p>", "c", "</p>" >>,
         created |-> Stamp(StartClock - js[i], js[i] % (MaxTz + 1))]]

\* one explicit goal: g1 has two tickets, both tasks of g5 link to K1
RenderConfigs ==
  { [has_required |-> TRUE,
     asana_goal_gids |-> ListValue(<< g >>),
     asana_project_gids |-> ListValue(<< >>),
     asana_team_gids |-> ListValue(<< >>),
     asana_workspace_gids |-> ListValue(<< >>)] : g \in {"g1", "g5"} }

InitRender ==
  /\ \E own \in [1..MaxBacklog -> Tickets \cup {NoKey}] :
        comments = [k \in Tickets |-> Backlog(own, k)]
  /\ ticket_status = [k \in Tickets |-> "green"]
  /\ local_tz = 0
  /\ updates = [g \in KnownGoals |-> << >>]
  /\ clock = StartClock
  /\ net = "up"
  /\ last_activity = StartClock - 1
  /\ n_events = 0
  /\ params \in RenderConfigs
  /\ dry_run \in BOOLEAN
  /\ pc = "idle"
  /\ run_no = 0
  /\ scope_queue = << >>
  /\ goal_queue = << >>
  /\ jira_tickets_info = << >>
  /\ frame = NoFrame
  /\ total_processed = 0
  /\ outcome = "none"
  /\ dry_total = 0
  /\ dry_outcome = "none"
  /\ goal_metric = [g \in KnownGoals |-> NoMetric]
  /\ fn_in = << >>
  /\ fn_out = << >>

NextRender ==
  \/ StartRun
  \/ NextScope
  \/ FinishRun
  \/ Aggregate
  \/ FetchAndDecide
  \/ Write

SpecRender == InitRender /\ [][NextRender]_vars

\* ------------------------------------------------ functions on their own
\* the program before any run, nothing configured
Parked ==
  /\ comments = [k \in Tickets |-> << >>]
  /\ ticket_status = [k \in Tickets |-> "green"]
  /\ local_tz = 0
  /\ updates = [g \in KnownGoals |-> << >>]
  /\ clock = StartClock
  /\ net = "up"
  /\ last_activity = StartClock - 1
  /\ n_events = 0
  /\ params = [has_required |-> FALSE,
               asana_goal_gids |-> ListValue(<< >>),
               asana_project_gids |-> ListValue(<< >>),
               asana_team_gids |-> ListValue(<< >>),
               asana_workspace_gids |-> ListValue(<< >>)]
  /\ dry_run = TRUE
  /\ pc = "idle"
  /\ run_no = 0
  /\ scope_queue = << >>
  /\ goal_queue = << >>
  /\ jira_tickets_info = << >>
  /\ frame = NoFrame
  /\ total_processed = 0
  /\ outcome = "none"
  /\ dry_total = 0
  /\ dry_outcome = "none"
  /\ goal_metric = [g \in KnownGoals |-> NoMetric]

parkedVars == << worldVars, cfgVars, runVars >>

\* attachment names: every text of at most MaxNameLen characters among
\* a letter, a digit, the hyphen and another character
NameChars == {"A", "1", "-", "x"}
NamesUpTo(n) == UNION {[1..m -> NameChars] : m \in 0..n}

DesignPdf == << "d", "e", "s", "i", "g", "n", ".", "p", "d", "f" >>
ProjNotes == << "P", "R", "O", "J", "-", "1", "2", "3", "-",
                "n", "o", "t", "e", "s", ".", "t", "x", "t" >>

OtherNames == { << "x", "-", "1" >>, << "J", "-", "2" >>, << "x", "P", "-", "3", "1" >> }

AttachmentLists ==
  { << >>, << DesignPdf, ProjNotes >>, << ProjNotes, DesignPdf >> }
  \cup { << a >> : a \in NamesUpTo(MaxNameLen) }
  \cup { << a, b >> : a \in NamesUpTo(MaxNameLen - 1), b \in OtherNames }
  \cup { << b, a >> : a \in NamesUpTo(MaxNameLen - 1), b \in OtherNames }

\* markup: the trees of depth MaxDepth at most over these tags and
\* attributes, each element with one child at most, and some documents
\* with several nodes at the top
KidTags == {"p", "span", "b", "i", "h2", "a", "u", "li"}
AttrSets == { {}, {"href", "class"} }

RECURSIVE Trees(_)
Trees(depth) ==
  IF depth = 0 THEN { TextNode(<< "x" >>), Elem("br", {}, << >>) }
  ELSE LET below == Trees(depth - 1)
       IN below
          \cup { Elem(tag, attrs, << >>) : tag \in KidTags, attrs \in AttrSets }
          \cup { Elem(tag, attrs, << kid >>) :
                   tag \in KidTags, attrs \in AttrSets, kid \in below }

TitleFragment ==
  << Elem("h2", {}, << TextNode(<< "Title" >>) >>),
     Elem("script", {}, << TextNode(<< "js" >>) >>),
     Elem("a", {}, << TextNode(<< "no-href" >>) >>) >>

Documents ==
  { << tree >> : tree \in Trees(MaxDepth) }
  \cup { << Elem("body", {"class"}, << tree >>) >> : tree \in Trees(MaxDepth - 1) }
  \cup { TitleFragment,
         << Elem("br", {}, << >>), TextNode(<< "x" >>), Elem("br", {}, << >>),
            Elem("br", {}, << >>), TextNode(<< "y" >>), Elem("br", {}, << >>) >>,
         << Elem("div", {"style"}, << Elem("p", {}, << TextNode(<< "x" >>) >>),
                                      Elem("img", {"src"}, << >>) >>) >>,
         << Elem("a", {"href_blank", "class"}, << TextNode(<< "x" >>) >>) >>,
         << Elem("table", {"class"}, << Elem("tr", {}, << Elem("td", {},
               << Elem("i", {}, << TextNode(<< "x" >>) >>) >>) >>) >>) >>,
         << Elem("ul", {"class"}, << Elem("li", {}, << TextNode(<< "x" >>) >>),
                                     Elem("li", {}, << TextNode(<< "y" >>) >>) >>) >> }

InitHtml ==
  /\ Parked
  /\ fn_in \in Documents
  /\ fn_out = << >>

\* create_goal_status_update of AsanaAPI converts the text it is given
Convert ==
  /\ fn_out = << >>
  /\ fn_out' = << convert_html_to_asana_format_impl(fn_in) >>
  /\ UNCHANGED fn_in
  /\ UNCHANGED parkedVars

NextHtml == Convert

SpecHtml == InitHtml /\ [][NextHtml]_vars

InitKey ==
  /\ Parked
  /\ fn_in \in AttachmentLists
  /\ fn_out = << >>

\* get_task_details asks for the key of the task
ExtractKey ==
  /\ fn_out = << >>
  /\ fn_out' = << get_jira_ticket_from_attachments(fn_in) >>
  /\ UNCHANGED fn_in
  /\ UNCHANGED parkedVars

NextKey == ExtractKey

SpecKey == InitKey /\ [][NextKey]_vars

\* ============================================================= properties
Errors == {"api_error", "status_error"}

\* a step of the program (the environment leaves the run's variables alone)
ProgramStep == runVars' # runVars

CurGoal == Head(goal_queue)

\* the tickets of the ticket records of the goal being processed
LinkedTickets == {jira_tickets_info[i].jira_ticket : i \in 1..Len(jira_tickets_info)}

\* the watermark of a goal: the instant of its most recent status update
HasWatermark(g) == updates[g] # << >>
Watermark(g) ==
  CHOOSE t \in {Instant(updates[g][i].created_at) : i \in 1..Len(updates[g])} :
    \A i \in 1..Len(updates[g]) : Instant(updates[g][i].created_at) <= t

\* the comments of ticket k created strictly after instant t
CreatedAfter(k, t) ==
  {comments[k][i].id : i \in {j \in 1..Len(comments[k]) :
                                Instant(comments[k][j].created) > t}}

\* the write of a live run posts on the goal being processed
Posts == pc = "write" /\ updates'[CurGoal] # updates[CurGoal]

\* C1: when a run has posted a status update on a goal and nothing has
\* happened on Jira since (no comment, no status change), the next run
\* posts no status update on that goal.
C1_QuietRunPostsNothing ==
  [][ Posts =>
        ~ \E i \in 1..Len(updates[CurGoal]) :
              /\ updates[CurGoal][i].run >= 1
              /\ updates[CurGoal][i].run = run_no - 1
              /\ Instant(updates[CurGoal][i].created_at) > last_activity ]_vars

\* C2: a goal with a previous status update and no comment created after
\* it gets no new update, whatever the ticket records and the previous
\* text are: nothing is written and the call returns success.
C2_NoNewCommentNoUpdate ==
  [][ ( /\ pc = "decide"
        /\ ProgramStep
        /\ AsanaUp
        /\ HasWatermark(CurGoal)
        /\ \A k \in LinkedTickets : CreatedAfter(k, Watermark(CurGoal)) = {} )
      => ( /\ pc' \in {"goal", "scope"}
           /\ total_processed' = total_processed + 1
           /\ updates' = updates ) ]_vars

\* C3: in a live run, a goal with ticket records that has no previous
\* update, or has a comment on a linked ticket created after the
\* watermark, gets exactly one status update from its processing
\* (when the processing does not raise).
C3_UpdateOnFirstRunOrNewComment ==
  [][ /\ ( ( /\ pc = "decide"
             /\ ProgramStep
             /\ ~dry_run
             /\ pc' # "idle"
             /\ \/ ~HasWatermark(CurGoal)
                \/ \E k \in LinkedTickets : CreatedAfter(k, Watermark(CurGoal)) # {} )
           => pc' = "write" )
      /\ ( ( /\ pc = "write"
             /\ ProgramStep
             /\ ~dry_run
             /\ pc' # "idle" )
           => Len(updates'[CurGoal]) = Len(updates[CurGoal]) + 1 ) ]_vars

C5_SinceIsUtc ==
  [][ ( pc = "decide" /\ pc' = "write" )
      => frame'.since_date =
           IF HasWatermark(CurGoal) THEN Watermark(CurGoal)
           ELSE clock - SevenDays ]_vars

\* C6: the status_type of a created update is the mapping table's entry
\* for the first ticket record's status, "on_track" without an entry.
C6_StatusTypeFromFirstRecord ==
  [][ Posts =>
        updates'[CurGoal][Len(updates'[CurGoal])].status_type
          = MappingGet(jira_tickets_info[1].jira_status, "on_track") ]_vars

\* a task of the goal is linked to a ticket whose status cannot be had
StatusUnavailable(g) ==
  \E i \in 1..Len(GoalTasks(g)) :
     /\ GoalTasks(g)[i].key # NoKey
     /\ (ticket_status[GoalTasks(g)[i].key] = NoStatus \/ ~JiraUp)

\* C7: when the status of a ticket linked to the goal cannot be retrieved
\* the processing raises: no update is created, the run ends with the
\* error and no further goal or scope entry is processed.
C7_MissingStatusIsFatal ==
  [][ /\ ( ( pc = "goal" /\ ProgramStep /\ AsanaUp /\ StatusUnavailable(CurGoal) )
           => ( /\ outcome' = "status_error"
                /\ pc' = "idle"
                /\ updates' = updates
                /\ goal_queue' = << >>
                /\ scope_queue' = << >> ) )
      /\ ( ( pc = "idle" /\ ProgramStep ) => run_no' = run_no + 1 ) ]_vars

\* C7 witness: a run has ended on a ticket without status
C7_Witness == outcome = "status_error" /\ pc = "idle" /\ run_no >= 1

\* C8 as stated: a dry run writes nothing, returns the count of the live
\* run, and raises every fatal error the live run raises.
C8_DryRunSameAsLive ==
  [][ /\ ( dry_run => updates' = updates )
      /\ ( ( ProgramStep /\ outcome' = "done" ) => dry_total' = total_processed' )
      /\ ( ( ProgramStep /\ outcome' \in Errors ) => dry_outcome' = outcome' ) ]_vars

\* C8 amended: a dry run writes nothing, returns the count of a live run
\* that completes, and raises every fatal error the live run raises
\* anywhere but in the creation of the status update.
C8_DryRunSameButForTheWrite ==
  [][ /\ ( dry_run => updates' = updates )
      /\ ( ( ProgramStep /\ outcome' = "done" )
           => ( dry_total' = total_processed' /\ dry_outcome' = "done" ) )
      /\ ( ( ProgramStep /\ outcome' \in Errors /\ pc # "write" )
           => dry_outcome' = outcome' ) ]_vars

\* C8 witness: a dry run has completed, counted a goal and written nothing
C8_Witness ==
  /\ dry_run
  /\ outcome = "done"
  /\ total_processed >= 1
  /\ \A g \in KnownGoals : \A i \in 1..Len(updates[g]) : updates[g][i].run = 0

\* a call made by the next step of the run fails
CallFails ==
  \/ pc = "scope" /\ scope_queue # << >> /\ ~AsanaUp
  \/ pc = "goal" /\ ~AsanaUp
  \/ pc = "goal" /\ ~JiraUp
        /\ \E i \in 1..Len(GoalTasks(CurGoal)) : GoalTasks(CurGoal)[i].key # NoKey
  \/ pc = "decide" /\ net # "up"
  \/ pc = "write" /\ ~dry_run /\ ~AsanaUp

\* C9: a failed call to Jira or Asana while a goal is processed ends the
\* run with a fatal error; it is never taken for an empty answer.
C9_FailedCallIsFatal ==
  [][ ( ProgramStep /\ CallFails ) => ( pc' = "idle" /\ outcome' \in Errors ) ]_vars

\* C10: a scope id that is not found, or that resolves to no goal, adds 0
\* to the count and the run goes on with the next scope entry.
C10_NotFoundIsNotFatal ==
  [][ ( /\ pc = "scope"
        /\ ProgramStep
        /\ scope_queue # << >>
        /\ AsanaUp
        /\ Directory(Head(scope_queue).kind, Head(scope_queue).id) \in {ApiError, << >>} )
      => ( /\ pc' = "scope"
           /\ scope_queue' = Tail(scope_queue)
           /\ total_processed' = total_processed
           /\ outcome' = outcome ) ]_vars

\* C11: a run that ends in a fatal execution error exits with a status
\* different from the one of a run that ends in a configuration error.
C11_ExecutionErrorExitsApart ==
  outcome \in Errors => ExitStatus(outcome) # ExitStatus("config_error")

\* the emptiness of a scope parameter's value, as the user sees it
IsEmptyValue(value) ==
  IF value.isstr THEN value.core = "" ELSE value.list = << >>

NoScopeGiven(p) ==
  /\ IsEmptyValue(p.asana_goal_gids)
  /\ IsEmptyValue(p.asana_project_gids)
  /\ IsEmptyValue(p.asana_team_gids)
  /\ IsEmptyValue(p.asana_workspace_gids)

\* C12: when a required parameter is missing, or every scope parameter is
\* empty (empty or blank string, empty list), the run ends with a
\* configuration error in its first step, before any call is made: it
\* never reaches a scope entry and the world is left as it was.
C12_ConfigErrorBeforeAnyCall ==
  [][ ( pc = "idle" /\ ProgramStep /\ (~params.has_required \/ NoScopeGiven(params)) )
      => ( /\ outcome' = "config_error"
           /\ pc' = "idle"
           /\ scope_queue' = << >>
           /\ goal_queue' = << >>
           /\ worldVars' = worldVars ) ]_vars

\* C12 witness: a run has ended with a configuration error on scope
\* parameters that are blank strings
C12_Witness ==
  /\ outcome = "config_error"
  /\ run_no >= 1
  /\ params.has_required
  /\ params.asana_goal_gids.isstr
  /\ params.asana_goal_gids.lead + params.asana_goal_gids.trail > 0
  /\ NoScopeGiven(params)

\* the goal has a linked task with a ticket key
HasTicket(g) == \E i \in 1..Len(GoalTasks(g)) : GoalTasks(g)[i].key # NoKey

\* every goal visit of every configured scope entry
GoalVisits(p) ==
  Flatten([i \in 1..Len(ScopeEntries(p)) |->
             Directory(ScopeEntries(p)[i].kind, ScopeEntries(p)[i].id)])

VisitsWithTicket(p) ==
  Cardinality({i \in 1..Len(GoalVisits(p)) : HasTicket(GoalVisits(p)[i])})

\* the processing of the current goal returns to its caller
GoalReturns ==
  pc \in {"goal", "decide", "write"} /\ ProgramStep /\ pc' \in {"goal", "scope"}

\* C13: the processing of a goal adds 1 to the total when the goal has a
\* ticket record and the update path completed, 0 when it has no linked
\* task or no linked ticket; no other step changes the total, and the
\* total of a completed run is the sum over all goal visits.
C13_TotalIsSumOfGoalResults ==
  [][ /\ ( GoalReturns =>
             /\ total_processed'
                  = total_processed + (IF HasTicket(CurGoal) THEN 1 ELSE 0)
             /\ (pc = "goal") = ~HasTicket(CurGoal) )
      /\ ( ( ProgramStep /\ pc # "idle" /\ ~GoalReturns )
           => total_processed' = total_processed )
      /\ ( ( ProgramStep /\ outcome' = "done" )
           => total_processed' = VisitsWithTicket(params) ) ]_vars

\* C13 witness: a run over several scope entries has completed; goals
\* with ticket records and goals without were visited
C13_Witness ==
  /\ outcome = "done"
  /\ total_processed >= 2
  /\ Len(GoalVisits(params)) > total_processed

\* the place of a scope kind in the order of processing
Rank(kind) ==
  CASE kind = "goal" -> 1 [] kind = "project" -> 2
    [] kind = "team" -> 3 [] kind = "workspace" -> 4

\* the configured ids of a scope kind
Configured(p, kind) ==
  normalize_to_list(CASE kind = "goal" -> p.asana_goal_gids
                      [] kind = "project" -> p.asana_project_gids
                      [] kind = "team" -> p.asana_team_gids
                      [] kind = "workspace" -> p.asana_workspace_gids)

\* the ids of a kind among scope entries, in their order
IdsOfKind(entries, kind) ==
  LET sel == SelectSeq(entries, LAMBDA e : e.kind = kind)
  IN [i \in 1..Len(sel) |-> sel[i].id]

IsSuffix(s, t) ==
  Len(s) <= Len(t) /\ s = SubSeq(t, Len(t) - Len(s) + 1, Len(t))

ScopeKinds == {"goal", "project", "team", "workspace"}

\* C14: the scope entries still to process are always in the order goals,
\* projects, teams, workspaces, in configured order within a kind; a run
\* starts with all of them, takes them one at a time from the front, and
\* takes the next one only when every goal of the previous one is done;
\* the goals of an entry are taken in the order of the answer, one goal
\* being processed to its end before the next one starts.
C14_ScopeOrder ==
  [][ /\ \A i, j \in 1..Len(scope_queue') :
           i < j => Rank(scope_queue'[i].kind) <= Rank(scope_queue'[j].kind)
      /\ \A kind \in ScopeKinds :
           IsSuffix(IdsOfKind(scope_queue', kind), Configured(params, kind))
      /\ ( ( pc = "idle" /\ pc' = "scope" )
           => \A kind \in ScopeKinds :
                 IdsOfKind(scope_queue', kind) = Configured(params, kind) )
      /\ ( ( pc # "idle" /\ pc' # "idle" /\ scope_queue' # scope_queue )
           => /\ pc = "scope"
              /\ goal_queue = << >>
              /\ scope_queue' = Tail(scope_queue)
              /\ goal_queue' = Directory(Head(scope_queue).kind,
                                         Head(scope_queue).id) )
      /\ ( ( pc \in {"goal", "decide", "write"} /\ ProgramStep /\ pc' # "idle" )
           => \/ goal_queue' = goal_queue /\ pc' \in {"decide", "write"}
              \/ goal_queue' = Tail(goal_queue) /\ pc' \in {"goal", "scope"} )
      /\ ( pc' = "scope" => goal_queue' = << >> ) ]_vars

\* C14 witness: the second goal of a team is being written, after the
\* explicit goal and the project, the workspace still to come
C14_Witness ==
  /\ pc = "write"
  /\ goal_queue = << "g2" >>
  /\ Len(scope_queue) = 1
  /\ scope_queue[1].kind = "workspace"
  /\ total_processed >= 2

\* the tokens of the section of the i-th ticket record in a rendered
\* document: from its link to the next link or to the end of the body
LinkPositions(doc) == {p \in 1..Len(doc) : doc[p] = Tok("<a>")}

NthLink(doc, i) ==
  CHOOSE p \in LinkPositions(doc) :
    Cardinality({q \in LinkPositions(doc) : q < p}) = i - 1

Section(doc, i) ==
  SubSeq(doc, NthLink(doc, i),
         IF Cardinality(LinkPositions(doc)) > i
         THEN NthLink(doc, i + 1) - 1 ELSE Len(doc) - 1)

\* the created values of the comments shown in a section, in their order
ShownDates(section) ==
  LET dates == SelectSeq(section, LAMBDA tok : tok.s = "date")
  IN [j \in 1..Len(dates) |-> dates[j].n]

\* C15: in the rendered document the section of every ticket record shows
\* at most 5 comments: the ticket's new comments when there are 5 or less,
\* the 5 with the greatest created otherwise, newest first, whatever the
\* number of new comments of the other tickets.
C15_FiveNewestPerTicket ==
  pc = "write" =>
    \A i \in 1..Len(jira_tickets_info) :
      LET shown == ShownDates(Section(frame.status_text, i))
          new == { Instant(comments[jira_tickets_info[i].jira_ticket][j].created) :
                     j \in { n \in 1..Len(comments[jira_tickets_info[i].jira_ticket]) :
                               Instant(comments[jira_tickets_info[i].jira_ticket][n].created)
                                 > frame.since_date } }
      IN /\ Len(shown) <= 5
         /\ Len(shown) = (IF Cardinality(new) < 5 THEN Cardinality(new) ELSE 5)
         /\ \A a, b \in 1..Len(shown) : a < b => shown[a] > shown[b]
         /\ Range(shown) \subseteq new
         /\ \A x \in new \ Range(shown) : \A y \in Range(shown) : x < y

\* C16: when a status update is created and the first ticket record has a
\* completion value, the goal's metric becomes that value, unchanged;
\* without a completion value the metric is left as it is.
C16_MetricFromFirstRecord ==
  [][ Posts =>
        IF TicketCompletion(jira_tickets_info[1].jira_ticket) # << >>
        THEN goal_metric'[CurGoal]
               = [num |-> TicketCompletion(jira_tickets_info[1].jira_ticket)[1],
                  den |-> 1]
        ELSE goal_metric' = goal_metric ]_vars

\* a text that matches [A-Z]+-\d+ as a whole
IsKey(w) ==
  \E a \in 1..Len(w) :
     /\ a + 2 <= Len(w)
     /\ \A i \in 1..a : IsUpper(w[i])
     /\ w[a + 1] = "-"
     /\ \A i \in (a + 2)..Len(w) : IsDigit(w[i])

\* the substrings of s that match, as pairs of their ends
MatchesIn(s) ==
  {ij \in (1..Len(s)) \X (1..Len(s)) :
     ij[1] <= ij[2] /\ IsKey(SubSeq(s, ij[1], ij[2]))}

\* C17: the key of a task is taken from the first attachment whose name
\* has a substring matching [A-Z]+-\d+; it is the match that starts
\* first in the name, taken to its full length; without any matching name
\* there is no key; design.pdf, PROJ-123-notes.txt give PROJ-123.
C17_KeyIsFirstMatch ==
  fn_out # << >> =>
    LET key == fn_out[1]
        with == {n \in 1..Len(fn_in) : MatchesIn(fn_in[n]) # {}}
    IN /\ (with = {}) <=> (key = << >>)
       /\ with # {} =>
            LET first == CHOOSE n \in with : \A o \in with : n <= o
                name == fn_in[first]
            IN \E ij \in MatchesIn(name) :
                  /\ key = << SubSeq(name, ij[1], ij[2]) >>
                  /\ \A o \in MatchesIn(name) :
                        ij[1] < o[1] \/ (ij[1] = o[1] /\ o[2] <= ij[2])
       /\ fn_in = << DesignPdf, ProjNotes >>
            => key = << << "P", "R", "O", "J", "-", "1", "2", "3" >> >>

\* C17 witness: the key was found in the second attachment, the first one
\* having no match, in a name with several matching substrings
C17_Witness ==
  /\ fn_out # << >>
  /\ Len(fn_in) = 2
  /\ MatchesIn(fn_in[1]) = {}
  /\ Cardinality(MatchesIn(fn_in[2])) > 1
  /\ fn_out[1] # << >>

\* the tasks of a goal that have a ticket key, in the order of the
\* relationship query
KeyedTasks(g) ==
  SelectSeq(GoalRelationships(g),
            LAMBDA rel : rel.resource_type = "task" /\ rel.key # NoKey)

\* C18: when every status can be had, the aggregation of a goal gives one
\* ticket record per linked task with a ticket key, in the order of the
\* relationship query, and none for a task without key, which is no
\* error: a goal without any keyed task is left without error.
C18_OneRecordPerKeyedTask ==
  [][ ( pc = "goal" /\ ProgramStep /\ AsanaUp /\ ~StatusUnavailable(CurGoal) )
      => IF KeyedTasks(CurGoal) = << >>
         THEN pc' \in {"goal", "scope"} /\ outcome' = outcome
         ELSE /\ pc' = "decide"
              /\ Len(jira_tickets_info') = Len(KeyedTasks(CurGoal))
              /\ \A i \in 1..Len(KeyedTasks(CurGoal)) :
                    /\ jira_tickets_info'[i].jira_ticket = KeyedTasks(CurGoal)[i].key
                    /\ jira_tickets_info'[i].task_name = KeyedTasks(CurGoal)[i].name ]_vars

\* C18 witness: the goal with two linked tasks, one of them with a key,
\* has exactly one record
C18_Witness ==
  /\ pc = "decide"
  /\ CurGoal = "g2"
  /\ Len(GoalRelationships("g2")) = 2
  /\ Len(jira_tickets_info) = 1
  /\ jira_tickets_info[1].jira_ticket = "K2"

\* the positions of a token in a sequence of tokens
PositionsOf(toks, tok) == {p \in 1..Len(toks) : toks[p] = tok}

\* the head of a section: link with the task name as text, status label
\* and status, header of the comments
SectionHead(ticket_info) ==
  << Tok("<a>"), [s |-> ticket_info.jira_ticket, n |-> -1],
     Tok(ticket_info.task_name), Tok("</a>"),
     Tok("<strong>"), Tok("Status:"), Tok("</strong>"),
     Tok(ticket_info.jira_status),
     Tok("<strong>"), Tok("New comments:"), Tok("</strong>") >>

\* C19: the rendered document has one section per ticket record, in the
\* order of the records; a section is the link with the task name, the
\* status, the header "New comments:" and then either the comments of
\* the ticket followed by the separator as last line, when the ticket has
\* new comments, or the marker "No new comments." alone, when it has
\* none; never the separator and the marker together.
C19_SectionPerTicketRecord ==
  pc = "write" =>
    /\ Cardinality(LinkPositions(frame.status_text)) = Len(jira_tickets_info)
    /\ \A i \in 1..Len(jira_tickets_info) :
         LET sec == Section(frame.status_text, i)
             head == SectionHead(jira_tickets_info[i])
             rest == SubSeq(sec, Len(head) + 1, Len(sec))
             has_new == \E j \in 1..Len(frame.all_new_comments) :
                           frame.all_new_comments[j].jira_ticket
                             = jira_tickets_info[i].jira_ticket
         IN /\ Len(sec) > Len(head)
            /\ SubSeq(sec, 1, Len(head)) = head
            /\ IF has_new
               THEN /\ PositionsOf(rest, Tok("<em>")) # {}
                    /\ PositionsOf(rest, Tok("----------")) = {Len(rest)}
                    /\ PositionsOf(rest, Tok("No new comments.")) = {}
               ELSE rest = << Tok("No new comments.") >>

\* C19 witness: a document with a section with comments and a section
\* without
C19_Witness ==
  /\ pc = "write"
  /\ Len(jira_tickets_info) = 2
  /\ PositionsOf(Section(frame.status_text, 1), Tok("----------")) # {}
  /\ PositionsOf(Section(frame.status_text, 2), Tok("No new comments.")) # {}

\* the tags Asana accepts in the body of a status update
Vocabulary == {"p", "strong", "em", "a", "ul", "ol", "li"}

\* the text a reader sees: script content is not part of it, and the
\* line breaks are layout
RECURSIVE VisibleText(_)
VisibleText(forest) ==
  IF forest = << >> THEN << >>
  ELSE LET node == Head(forest)
       IN (IF node.tag = "#text" THEN node.text
           ELSE IF node.tag \in {"script", "style"} THEN << >>
           ELSE VisibleText(node.kids))
          \o VisibleText(Tail(forest))

\* C20: the body sent to Asana is a root tag around tags of the
\* vocabulary only; a link has its href and nothing else, no other tag
\* has an attribute, and the visible text of the source is all there, in
\* its order.
C20_OnlyVocabulary ==
  fn_out # << >> =>
    LET out == fn_out[1]
        inner == SubSeq(out, 2, Len(out) - 1)
        shown == SelectSeq(inner, LAMBDA tok :
                   tok.kind = "text" /\ tok.s \notin {"\n", "js"})
    IN /\ out[1] = OpenTag("body", {})
       /\ out[Len(out)] = CloseTag("body")
       /\ \A p \in 1..Len(inner) :
            /\ inner[p].kind # "text" => inner[p].s \in Vocabulary
            /\ inner[p].kind = "open" =>
                 inner[p].attrs = (IF inner[p].s = "a" THEN {"href"} ELSE {})
       /\ [p \in 1..Len(shown) |-> shown[p].s] = VisibleText(fn_in)

\* C21: the fragment <h2>Title</h2><script>..</script><a>no-href</a> is
\* converted to <strong>Title</strong>no-href inside the root tag: the
\* heading is bold text, the script is gone with its content, the link
\* without href is plain text.
C21_TitleFragmentConverted ==
  ( fn_in = TitleFragment /\ fn_out # << >> )
    => fn_out[1] = << OpenTag("body", {}),
                      OpenTag("strong", {}), TextTok("Title"), CloseTag("strong"),
                      TextTok("no-href"),
                      CloseTag("body") >>

\* the goals with a task linked to ticket k
GoalsOf(k) ==
  {g \in KnownGoals : \E i \in 1..Len(KeyedTasks(g)) : KeyedTasks(g)[i].key = k}

\* C22: in live runs, a comment created on a linked ticket while the
\* program is in use is in the new-comment set of at most one posted
\* update of a goal, and it is in the new-comment set of the first update
\* of the goal posted after the comment was created, whenever the comment
\* was created (also between the fetch of a run and its write).
C22_EachCommentReportedOnce ==
  ~dry_run =>
    \A k \in Tickets : \A j \in 1..Len(comments[k]) : \A g \in GoalsOf(k) :
      LET created == Instant(comments[k][j].created)
          with == {i \in 1..Len(updates[g]) : created \in updates[g][i].new_comments}
          after == {i \in 1..Len(updates[g]) :
                      Instant(updates[g][i].created_at) > created}
      IN created >= StartClock =>
           /\ Cardinality(with) <= 1
           /\ after # {} =>
                (CHOOSE i \in after : \A o \in after : i <= o) \in with

\* C23: in a live run during which nothing happens on Jira (here: nothing
\* has happened since the program was started), a goal gets at most one
\* status update, also when several scope entries lead to it: the write
\* never posts on a goal that already has an update of the same run.
C23_OneUpdatePerGoalAndRun ==
  [][ ( Posts /\ n_events = 0 )
      => ~ \E i \in 1..Len(updates[CurGoal]) : updates[CurGoal][i].run = run_no ]_vars
====
